---- MODULE Spec2Model ----
(***************************************************************************)
(* Model of the thorium device framework:                                  *)
(*   control/servers/base_servers/serial_device_server.py                  *)
(*   control/servers/hv500_server.py                                       *)
(*   control/servers/base_servers/tcp_server.py (readline, readall)        *)
(*   control/servers/base_servers/visa_server.py (initServer)              *)
(* Coroutines (inlineCallbacks) advance one suspension at a time; the      *)
(* manager's messages are handled between any two of their steps.          *)
(* Python strings that the code slices, lower-cases or searches are        *)
(* sequences of one-character strings; None and "" (both falsy) are <<>>.  *)
(***************************************************************************)
EXTENDS Integers, Sequences, FiniteSets, TLC

(***************************************************************************)
(* Bounds of the model.                                                    *)
(***************************************************************************)
\* attempts to open a serial connection in one behaviour
MaxOpens == 2
\* calls of stopServer in one behaviour
MaxStops == 2
\* remote operations (get_ID, get_voltage, set_voltage) started in one behaviour
MaxCalls == 2
\* remote operations in progress at the same time
MaxInFlight == 2
\* "Server Connect" and "Server Disconnect" messages in one behaviour
MaxNotes == 3

(***************************************************************************)
(* Strings.                                                                *)
(***************************************************************************)
UpperChars == <<"A","B","C","D","E","F","G","H","I","J","K","L","M",
                "N","O","P","Q","R","S","T","U","V","W","X","Y","Z">>
LowerChars == <<"a","b","c","d","e","f","g","h","i","j","k","l","m",
                "n","o","p","q","r","s","t","u","v","w","x","y","z">>

\* str.lower() on one character
LowerChar(c) ==
    IF \E i \in 1..Len(UpperChars) : UpperChars[i] = c
    THEN LowerChars[CHOOSE i \in 1..Len(UpperChars) : UpperChars[i] = c]
    ELSE c

\* str.lower()
Lower(s) == [i \in 1..Len(s) |-> LowerChar(s[i])]

\* Python's `sub in s` on strings
Contains(sub, s) ==
    \E i \in 0..(Len(s) - Len(sub)) : SubSeq(s, i + 1, i + Len(sub)) = sub

\* Python's `not x` for a string-or-None attribute
Falsy(s) == s = <<>>

\* s[:n]
Prefix(s, n) == SubSeq(s, 1, IF n < Len(s) THEN n ELSE Len(s))

\* s[-n:]
Suffix(s, n) == SubSeq(s, (IF Len(s) > n THEN Len(s) - n ELSE 0) + 1, Len(s))

(***************************************************************************)
(* Class attributes of HV500Server and the environment's names.            *)
(***************************************************************************)
\* HV500Server.name = SERVERNAME = "hv500_server"
SERVERNAME == <<"h","v","5","0","0","_","s","e","r","v","e","r">>
\* HV500Server.regKey = "HV500_HV264"
REGKEY == <<"H","V","5","0","0","_","H","V","2","6","4">>
\* HV500Server.baudrate = BAUDRATE
BAUDRATE == 9600
\* HV500Server.timeout = Value(TIMEOUT, "s"), in tenths of a second
TIMEOUT == 1
\* the marker _matchSerial looks for
SerialMarker == <<"s","e","r","i","a","l">>

\* getNodeName() of the machine the server runs on
NodeName == <<"P","c","1">>

\* the absent value of an integer-valued attribute (ser, a keyword argument)
None == 0
\* the absent value of a port name
NoPort == "None"

\* the (name, ID) of the servers the LabRAD manager may advertise
ServerNames == <<
    <<"p","c","1"," ","S","e","r","i","a","l"," ","S","e","r","v","e","r">>,
    <<"P","C","1","_","s","e","r","i","a","l","_","b">>,
    <<"p","c","2"," ","S","e","r","i","a","l"," ","S","e","r","v","e","r">>,
    <<"p","c","1"," ","G","P","I","B"," ","B","u","s">> >>
Servers == 1..Len(ServerNames)
\* the manager's ID of a server (never 0)
ServerID(s) == 10 + s

(***************************************************************************)
(* The registry: a "Ports" directory at the root (or none), its keys in    *)
(* listing order with their values, and the cursor (current directory).    *)
(***************************************************************************)
OTHERKEY == <<"O","T","H","E","R","_","K","E","Y">>
LOWKEY == <<"h","v","5","0","0","_","b">>
Root == <<"">>
PortsDir == <<"", "Ports">>
ServersDir == <<"", "Servers">>

Registries == {
    [hasPorts |-> FALSE, keys |-> <<>>],
    [hasPorts |-> TRUE, keys |-> <<>>],
    [hasPorts |-> TRUE, keys |-> << [k |-> OTHERKEY, v |-> "COM9"] >>],
    [hasPorts |-> TRUE, keys |-> << [k |-> REGKEY, v |-> "COM3"],
                                    [k |-> OTHERKEY, v |-> "COM9"] >>],
    [hasPorts |-> TRUE, keys |-> << [k |-> OTHERKEY, v |-> "COM9"],
                                    [k |-> LOWKEY, v |-> "COM5"],
                                    [k |-> REGKEY, v |-> "COM3"] >>] }
Cursors == {Root, ServersDir}

\* the keys equal to regKey, in place of those containing it
MatchingKeys_exact(reg, key) ==
    {i \in 1..Len(reg.keys) : reg.keys[i].k = key}

\* list(filter(lambda x: regKey in x, y[1])) as the indices of the matching keys
MatchingKeys(reg, key) ==
    {i \in 1..Len(reg.keys) : Contains(key, reg.keys[i].k)}

Min(S) == CHOOSE x \in S : \A y \in S : x <= y

\* getPortFromReg taking the last matching key, in place of the first
getPortFromReg_lastMatch(reg, cur, regKeyArg, nameAttr, getOk) ==
    LET key == IF Falsy(regKeyArg) THEN Lower(Prefix(nameAttr, 4)) ELSE regKeyArg
        m == MatchingKeys(reg, key)
    IN  IF ~reg.hasPorts
        THEN [err |-> "PortRegError", code |-> 0, value |-> NoPort, cursor |-> cur]
        ELSE IF Falsy(regKeyArg) /\ Falsy(nameAttr)
        THEN [err |-> "SerialDeviceError", code |-> 0, value |-> NoPort,
              cursor |-> PortsDir]
        ELSE IF m = {}
        THEN [err |-> "PortRegError", code |-> 1, value |-> NoPort,
              cursor |-> PortsDir]
        ELSE IF ~getOk
        THEN [err |-> "Error", code |-> 1, value |-> NoPort, cursor |-> cur]
        ELSE [err |-> "", code |-> 0,
              value |-> reg.keys[CHOOSE i \in m : \A j \in m : j <= i].v,
              cursor |-> cur]

\* SerialDeviceServer.getPortFromReg: the whole coroutine, from the cursor
\* cur, with reg.get succeeding (getOk) or raising a labrad Error.
\* Result: err ("" on return), code, value and the cursor left behind.
getPortFromReg(reg, cur, regKeyArg, nameAttr, getOk) ==
    LET tmp == cur
        key == IF Falsy(regKeyArg) THEN Lower(Prefix(nameAttr, 4)) ELSE regKeyArg
        m == MatchingKeys(reg, key)
    IN  IF ~reg.hasPorts
        THEN \* reg.cd(["", "Ports"]) raises Error 17; except: reg.cd(tmp)
             [err |-> "PortRegError", code |-> 0, value |-> NoPort, cursor |-> tmp]
        ELSE IF Falsy(regKeyArg) /\ Falsy(nameAttr)
        THEN \* SerialDeviceError is not a labrad Error: no handler runs
             [err |-> "SerialDeviceError", code |-> 0, value |-> NoPort,
              cursor |-> PortsDir]
        ELSE IF m = {}
        THEN \* PortRegError is not a labrad Error: no handler runs
             [err |-> "PortRegError", code |-> 1, value |-> NoPort,
              cursor |-> PortsDir]
        ELSE IF ~getOk
        THEN \* reg.get raises Error (code # 17); except: reg.cd(tmp); raise
             [err |-> "Error", code |-> 1, value |-> NoPort, cursor |-> tmp]
        ELSE [err |-> "", code |-> 0, value |-> reg.keys[Min(m)].v,
              cursor |-> tmp]

(***************************************************************************)
(* State.                                                                  *)
(***************************************************************************)
VARIABLES
    registry,     \* the registry's content
    cursor,       \* the registry's current directory for this client
    regKey,       \* class attribute regKey (<<>> when not configured)
    serNode,      \* class attribute serNode (<<>> when not configured)
    online,       \* the servers the manager advertises
    port,         \* attribute port
    ser,          \* attribute ser: None or an index into handles
    IDN,          \* attribute IDN of HV500Server (<<>> before it is set)
    handles,      \* every SerialConnection constructed so far
    initpc,       \* position of the initServer coroutine
    initErr,      \* the exception that left initServer, if any
    caught,       \* code of the SerialConnectionError initServer caught, or -1
    regAccessed,  \* a registry request was issued
    discovered,   \* a cli.manager.servers() request was issued
    nOpen,        \* calls of ser.open so far
    stops,        \* calls of stopServer so far
    notes,        \* "Server Connect"/"Server Disconnect" messages so far
    req,          \* the remote operations: setting, arguments, position, result
    inflight,     \* transport requests awaiting their reply, oldest first
    calls,        \* remote operations started so far
    rx,           \* the device's replies not yet read, oldest first
    regCall,      \* a direct call of getPortFromReg: arguments and result
    tcp,          \* a TCPServer: its socket, the read under way, what it returned
    visa,         \* a VisaServer: the bus, the candidates, what initServer did
    tally         \* calls of ser.write and ser.read_line, settings ended, so far

mgrVars == <<port, ser, IDN, handles, nOpen>>
initVars == <<initpc, initErr, caught, regAccessed, discovered>>
envVars == <<registry, regKey, serNode, notes>>
opVars == <<req, inflight, calls, rx, tally>>
libVars == <<regCall, tcp, visa>>
vars == <<registry, cursor, regKey, serNode, online, port, ser, IDN, handles,
          initpc, initErr, caught, regAccessed, discovered, nOpen, stops,
          notes, req, inflight, calls, rx, regCall, tcp, visa, tally>>

Reqs == 1..MaxInFlight
\* a request slot: the setting called, its arguments, the coroutine's position
\* (idle, write, read, done), the handle its pending transport request went
\* to, the exception it ended with, the reply it read, whether self.ser was
\* set when it was called, whether one of its transport requests failed, the
\* line it wrote, the number of lines it read, the number of times it called
\* ser.write and ser.read_line, and its locals ch_str and volt_str
NoReq == [op |-> "", pc |-> "idle", channel |-> 0, voltage |-> 0, h |-> 0,
          err |-> "", val |-> 0, held |-> FALSE, iofail |-> FALSE,
          wrote |-> <<>>, reads |-> 0, writes |-> 0, readCalls |-> 0,
          ch_str |-> <<>>, volt_str |-> <<>>]

\* nothing written, nothing read, no setting ended
NoTally == [writes |-> 0, readCalls |-> 0, gets |-> 0, sets |-> 0,
            failed |-> 0]

NoErr == [err |-> "", code |-> 0]

\* _matchSerial comparing the names as they are, without lower()
_matchSerial_caseSensitive(node, potMatch) ==
    LET serMatch == Contains(SerialMarker, potMatch)
        nodeMatch == Contains(node, potMatch)
    IN  serMatch /\ nodeMatch

\* SerialDeviceServer._matchSerial
_matchSerial(node, potMatch) ==
    LET serMatch == Contains(SerialMarker, Lower(potMatch))
        nodeMatch == Contains(Lower(node), Lower(potMatch))
    IN  serMatch /\ nodeMatch

\* SerialConnection.__init__ after a successful ser.open(port)
SerialConnection(s, p, timeoutKw, baudrateKw) ==
    [srv |-> s, ID |-> ServerID(s), port |-> p, timeout |-> timeoutKw,
     baudrate |-> baudrateKw, state |-> "open", closes |-> 0]

\* the manager lets go of handle h without closing it (self.ser = None)
Dropped(hs, h) ==
    IF h # None /\ hs[h].state = "open"
    THEN [hs EXCEPT ![h].state = "dropped"]
    ELSE hs

\* the handles that are opened and neither closed nor dropped
Live == {h \in 1..Len(handles) : handles[h].state = "open"}

\* initSerial trying ser.open a second time when the first raises
initSerial_retry(s, p, baudrateKw, openOk) ==
    /\ nOpen' = nOpen + (IF openOk THEN 1 ELSE 2)
    /\ IF openOk
       THEN /\ handles' = Append(handles,
                                 SerialConnection(s, p, TIMEOUT, baudrateKw))
            /\ ser' = Len(handles) + 1
       ELSE /\ handles' = Dropped(handles, ser)
            /\ ser' = None

\* SerialDeviceServer.initSerial(serStr, port, **kwargs): fills in the timeout
\* from self.timeout, constructs the SerialConnection; an Error from
\* ser.open leaves ser None and raises SerialConnectionError(1).
initSerial(s, p, baudrateKw, openOk) ==
    LET timeoutKw == TIMEOUT
    IN  /\ nOpen' = nOpen + 1
        /\ IF openOk
           THEN /\ handles' = Append(handles,
                                     SerialConnection(s, p, timeoutKw, baudrateKw))
                /\ ser' = Len(handles) + 1
           ELSE /\ handles' = Dropped(handles, ser)
                /\ ser' = None

\* findSerial taking the first advertised server, matching or not
findSerial_anyServer(node) ==
    IF online = {} THEN 0 ELSE Min(online)

\* SerialDeviceServer.findSerial: the first advertised server that matches
\* (0 when none does: SerialConnectionError(0))
findSerial(node) ==
    LET m == {s \in online : _matchSerial(node, ServerNames[s])}
    IN  IF m = {} THEN 0 ELSE Min(m)

\* no direct call of getPortFromReg
NoRegCall == [pc |-> "idle", key |-> <<>>, name |-> <<>>, getOk |-> TRUE,
              res |-> [err |-> "", code |-> 0, value |-> NoPort,
                       cursor |-> Root]]
\* no TCPServer
NoTcp == [pc |-> "off", stream |-> <<>>, pending |-> <<>>, sock |-> <<>>,
          op |-> "", termination |-> <<>>, buf |-> <<>>, chunks |-> <<>>,
          nrecv |-> 0, ret |-> [kind |-> "", val |-> <<>>], out |-> <<>>,
          onlyLines |-> TRUE]
\* no VisaServer
NoVisa == [pc |-> "off", links |-> <<>>, attached |-> {}, rmOk |-> TRUE,
           openOk |-> TRUE, instruments |-> {}, address |-> "unset",
           opened |-> <<>>, device |-> "unset", raised |-> "",
           printed |-> ""]

\* the HV500Server process before initServer runs
ManagerInit ==
    /\ registry \in Registries
    /\ cursor \in Cursors
    /\ regKey \in {<<>>, REGKEY}
    /\ serNode \in {<<>>, NodeName}
    /\ online \in SUBSET Servers
    /\ port = NoPort
    /\ ser = None
    /\ IDN = <<>>
    /\ handles = <<>>
    /\ initpc = "start"
    /\ initErr = NoErr
    /\ caught = -1
    /\ regAccessed = FALSE
    /\ discovered = FALSE
    /\ nOpen = 0
    /\ stops = 0
    /\ notes = 0
    /\ req = [r \in Reqs |-> NoReq]
    /\ inflight = <<>>
    /\ calls = 0
    /\ rx = <<>>
    /\ tally = NoTally

Init ==
    /\ ManagerInit
    /\ regCall = NoRegCall
    /\ tcp = NoTcp
    /\ visa = NoVisa

\* InitStart checking regKey alone
InitStart_regKeyOnly ==
    /\ initpc = "start"
    /\ IF Falsy(regKey)
       THEN /\ initpc' = "failed"
            /\ initErr' = [err |-> "SerialDeviceError", code |-> 0]
            /\ regAccessed' = regAccessed
       ELSE /\ initpc' = "resolving"
            /\ initErr' = initErr
            /\ regAccessed' = TRUE
    /\ UNCHANGED <<libVars, caught, discovered, mgrVars, envVars, cursor, online, stops,
                   opVars>>

\* SerialDeviceServer.initServer up to its first suspension: the check of the
\* attributes, then the call of getPortFromReg, which issues reg.cd()
InitStart ==
    /\ initpc = "start"
    /\ IF Falsy(regKey) \/ Falsy(serNode)
       THEN /\ initpc' = "failed"
            /\ initErr' = [err |-> "SerialDeviceError", code |-> 0]
            /\ regAccessed' = regAccessed
       ELSE /\ initpc' = "resolving"
            /\ initErr' = initErr
            /\ regAccessed' = TRUE
    /\ UNCHANGED <<libVars, caught, discovered, mgrVars, envVars, cursor, online, stops,
                   opVars>>

\* getPortFromReg completes; its exception leaves initServer (the call is
\* outside the try), its value becomes self.port and findSerial is called
InitResolved(getOk) ==
    /\ initpc = "resolving"
    /\ LET r == getPortFromReg(registry, cursor, regKey, SERVERNAME, getOk)
       IN  /\ cursor' = r.cursor
           /\ IF r.err # ""
              THEN /\ initpc' = "failed"
                   /\ initErr' = [err |-> r.err, code |-> r.code]
                   /\ UNCHANGED <<port, discovered>>
              ELSE /\ initpc' = "finding"
                   /\ port' = r.value
                   /\ discovered' = TRUE
                   /\ UNCHANGED initErr
    /\ UNCHANGED <<libVars, caught, regAccessed, ser, IDN, handles, nOpen, envVars,
                   online, stops, opVars>>

\* findSerial completes, initSerial runs; SerialConnectionError 0 and 1 are
\* caught with self.ser = None; then HV500Server.initServer sets IDN
InitFound(openOk) ==
    /\ initpc = "finding"
    /\ LET s == findSerial(serNode)
       IN  IF s = 0
           THEN /\ caught' = 0
                /\ ser' = None
                /\ handles' = Dropped(handles, ser)
                /\ UNCHANGED nOpen
           ELSE /\ nOpen < MaxOpens
                /\ initSerial(s, port, BAUDRATE, openOk)
                /\ caught' = IF openOk THEN -1 ELSE 1
    /\ initpc' = "done"
    /\ IDN' = Suffix(regKey, 5)
    /\ UNCHANGED <<libVars, initErr, regAccessed, discovered, port, envVars, cursor,
                   online, stops, opVars>>

\* SerialDeviceServer.serverConnected(ID, name)
serverConnected(s, openOk) ==
    LET should_init == /\ ser = None
                       /\ port # NoPort /\ ~Falsy(serNode)
                       /\ _matchSerial(serNode, ServerNames[s])
    IN  IF should_init
        THEN /\ nOpen < MaxOpens
             /\ initSerial(s, port, None, openOk)
        ELSE UNCHANGED <<ser, handles, nOpen>>

\* a server comes up and the manager's "Server Connect" message is delivered
ServerConnected(s, openOk) ==
    /\ initpc \in {"resolving", "finding", "done"}
    /\ s \notin online
    /\ notes < MaxNotes
    /\ notes' = notes + 1
    /\ online' = online \cup {s}
    /\ serverConnected(s, openOk)
    /\ UNCHANGED <<libVars, port, IDN, initVars, registry, regKey, serNode, cursor,
                   stops, opVars>>

\* serverDisconnected without the comparison of the IDs
serverDisconnected_anyID(ID) ==
    IF ser # None
    THEN ser' = None
    ELSE ser' = ser

\* SerialDeviceServer.serverDisconnected(ID, name)
serverDisconnected(ID) ==
    IF ser # None /\ handles[ser].ID = ID
    THEN ser' = None
    ELSE ser' = ser

\* the connections a server held die with it
ServerGone(hs, s) ==
    [h \in 1..Len(hs) |->
        IF hs[h].srv = s /\ hs[h].state = "open"
        THEN [hs[h] EXCEPT !.state = "dropped"]
        ELSE hs[h]]

\* a server goes away and the manager's "Server Disconnect" message is delivered
ServerDisconnected(s) ==
    /\ initpc \in {"resolving", "finding", "done"}
    /\ s \in online
    /\ notes < MaxNotes
    /\ notes' = notes + 1
    /\ online' = online \ {s}
    /\ serverDisconnected(ServerID(s))
    /\ handles' = ServerGone(handles, s)
    /\ UNCHANGED <<libVars, port, IDN, nOpen, initVars, registry, regKey, serNode,
                   cursor, stops, opVars>>

\* SerialDeviceServer.stopServer
stopServer ==
    IF ser # None
    THEN handles' = [handles EXCEPT ![ser].closes = @ + 1,
                                    ![ser].state = "closed"]
    ELSE handles' = handles

StopServer ==
    /\ initpc = "done"
    /\ stops < MaxStops
    /\ stops' = stops + 1
    /\ stopServer
    /\ UNCHANGED <<libVars, port, ser, IDN, nOpen, initVars, envVars, cursor, online,
                   opVars>>

(***************************************************************************)
(* HV500Server: the codec and the three settings.  A voltage is an integer *)
(* number of millivolts.                                                   *)
(***************************************************************************)
\* VLIM = 300 (volts)
VLIM == 300

DigitChars == <<"0","1","2","3","4","5","6","7","8","9">>

RECURSIVE NatStr(_)
\* str(n) for n >= 0
NatStr(n) ==
    IF n < 10 THEN <<DigitChars[n + 1]>>
    ELSE NatStr(n \div 10) \o <<DigitChars[(n % 10) + 1]>>

\* str(n)
IntStr(n) == IF n < 0 THEN <<"-">> \o NatStr(-n) ELSE NatStr(n)

\* n in 0..999999 as six digits
Pad6(n) ==
    LET s == NatStr(n)
    IN  [i \in 1..(6 - Len(s)) |-> "0"] \o s

\* f'{d:.6f}' for d = micro / 10^6
Fixed6(micro) ==
    LET a == IF micro < 0 THEN -micro ELSE micro
    IN  (IF micro < 0 THEN <<"-">> ELSE <<>>)
        \o NatStr(a \div 1000000) \o <<".">> \o Pad6(a % 1000000)

\* channel_to_str without the leading zero
channel_to_str_unpadded(channel) == IntStr(channel)

\* HV500Server.channel_to_str
channel_to_str(channel) ==
    LET _channel == IntStr(channel)
    IN  IF Len(_channel) > 1 THEN _channel ELSE <<"0">> \o _channel

\* voltage_to_kw without the offset of 500 V
voltage_to_kw_noOffset(v) == Fixed6(v)

\* HV500Server.voltage_to_kw: d = (v+500)/1000 for v volts is
\* (mv + 500*1000) millionths for mv millivolts
voltage_to_kw(v) == Fixed6(v + 500 * 1000)

\* the line a setting writes
CommandLine(op, channel, voltage) ==
    IF op = "get_ID" THEN <<"I","D","N","\r">>
    ELSE IF op = "get_voltage"
    THEN IDN \o <<" ","Q">> \o channel_to_str(channel) \o <<"\r">>
    ELSE IDN \o <<" ","C","H">> \o channel_to_str(channel) \o <<" ">>
         \o voltage_to_kw(voltage) \o <<"\r">>

ChannelArgs == {1}
VoltageArgs == {0, 300001}
\* the calls a client may make: the setting with its arguments
CallArgs ==
    {[op |-> "get_ID", channel |-> 0, voltage |-> 0]}
    \cup {[op |-> "get_voltage", channel |-> c, voltage |-> 0] : c \in ChannelArgs}
    \cup {[op |-> "set_voltage", channel |-> c, voltage |-> v] :
              c \in ChannelArgs, v \in VoltageArgs}

\* set_voltage's check with the limits themselves refused
OutOfLimit_inclusive(voltage) ==
    voltage >= VLIM * 1000 \/ voltage <= -VLIM * 1000

\* set_voltage: if voltage > self.VLIM or voltage < -self.VLIM
OutOfLimit(voltage) ==
    voltage > VLIM * 1000 \/ voltage < -VLIM * 1000

\* a transport request on handle h succeeds only on an open connection
TransportOk(h, ioOk) == ioOk /\ handles[h].state = "open"

\* the setting ends: returnValue or an exception leaves it
Finish(r, q, e) ==
    req' = [req EXCEPT ![r] = [q EXCEPT !.pc = "done", !.err = e]]

\* the step of request r counted: the calls of ser.write and ser.read_line
\* it made, and the setting's end, by returnValue (gets, sets) or by an
\* exception (failed)
Tallied(r) ==
    LET ended == req'[r].pc = "done"
        isSet == req'[r].op = "set_voltage"
    IN  tally' =
          [writes |-> tally.writes + (req'[r].writes - req[r].writes),
           readCalls |-> tally.readCalls + (req'[r].readCalls - req[r].readCalls),
           gets |-> tally.gets
                    + (IF ended /\ req'[r].err = "" /\ ~isSet THEN 1 ELSE 0),
           sets |-> tally.sets
                    + (IF ended /\ req'[r].err = "" /\ isSet THEN 1 ELSE 0),
           failed |-> tally.failed
                    + (IF ended /\ req'[r].err # "" THEN 1 ELSE 0)]

\* get_ID, get_voltage, set_voltage up to the first suspension, at
\* yield self.ser.write(...); a write that fails raises there
Call(r, op, channel, voltage, ioOk) ==
    /\ initpc = "done"
    /\ req[r].op = ""
    /\ \A q \in 1..(r - 1) : req[q].op # ""
    /\ calls < MaxCalls
    /\ calls' = calls + 1
    /\ LET q0 == [NoReq EXCEPT !.op = op, !.channel = channel,
                               !.voltage = voltage, !.held = (ser # None)]
           \* the locals computed before the write
           q == [q0 EXCEPT
                   !.ch_str = IF op = "get_ID" THEN <<>>
                              ELSE channel_to_str(channel),
                   !.volt_str = IF op = "set_voltage"
                                THEN voltage_to_kw(voltage) ELSE <<>>]
       IN  IF op = "set_voltage" /\ OutOfLimit(voltage)
           THEN /\ Finish(r, q0, "ValueError")
                /\ UNCHANGED <<inflight, rx>>
           ELSE IF ser = None
           THEN \* self.ser.write on None
                /\ Finish(r, q, "AttributeError")
                /\ UNCHANGED <<inflight, rx>>
           ELSE IF ~TransportOk(ser, ioOk)
           THEN \* the transport's Error leaves the setting
                /\ Finish(r, [q EXCEPT !.iofail = TRUE, !.h = ser,
                                       !.writes = 1], "Error")
                /\ UNCHANGED <<inflight, rx>>
           ELSE /\ req' = [req EXCEPT ![r] =
                               [q EXCEPT !.pc = "write", !.h = ser,
                                         !.writes = 1,
                                         !.wrote = CommandLine(op, channel, voltage)]]
                /\ inflight' = Append(inflight, r)
                /\ rx' = IF op = "set_voltage" THEN rx ELSE Append(rx, r)
    /\ Tallied(r)
    /\ UNCHANGED <<libVars, mgrVars, initVars, envVars, cursor, online, stops>>

\* every setting reading a line after its write
ReadsReply_always(op) == TRUE

\* the settings with val = yield self.ser.read_line() after the write
ReadsReply(op) == op \in {"get_ID", "get_voltage"}

\* the write's reply arrives: set_voltage returns; get_ID and get_voltage go
\* on to yield self.ser.read_line()
AfterWrite(r, ioOk) ==
    /\ inflight # <<>> /\ Head(inflight) = r
    /\ req[r].pc = "write"
    /\ IF ~ReadsReply(req[r].op)
       THEN /\ Finish(r, req[r], "")
            /\ inflight' = Tail(inflight)
       ELSE IF ser = None
       THEN \* self.ser.read_line on None
            /\ Finish(r, req[r], "AttributeError")
            /\ inflight' = Tail(inflight)
       ELSE IF ~TransportOk(ser, ioOk)
       THEN /\ Finish(r, [req[r] EXCEPT !.iofail = TRUE, !.h = ser,
                                        !.readCalls = 1], "Error")
            /\ inflight' = Tail(inflight)
       ELSE /\ req' = [req EXCEPT ![r].pc = "read", ![r].h = ser,
                                  ![r].readCalls = 1]
            /\ inflight' = Append(Tail(inflight), r)
    /\ Tallied(r)
    /\ UNCHANGED <<libVars, calls, rx, mgrVars, initVars, envVars, cursor, online, stops>>

\* the read_line's reply arrives: the oldest unread line, or the empty
\* string after the timeout; get_voltage returns float(val[:-1])
AfterRead(r) ==
    /\ inflight # <<>> /\ Head(inflight) = r
    /\ req[r].pc = "read"
    /\ inflight' = Tail(inflight)
    /\ IF handles[req[r].h].state # "open"
       THEN /\ Finish(r, [req[r] EXCEPT !.iofail = TRUE], "Error")
            /\ rx' = rx
       ELSE IF rx = <<>>
       THEN /\ Finish(r, req[r],
                      IF req[r].op = "get_voltage" THEN "ValueError" ELSE "")
            /\ rx' = rx
       ELSE /\ Finish(r, [req[r] EXCEPT !.val = Head(rx), !.reads = 1], "")
            /\ rx' = Tail(rx)
    /\ Tallied(r)
    /\ UNCHANGED <<libVars, calls, mgrVars, initVars, envVars, cursor, online, stops>>

\* the reply of a finished setting has gone to the caller
Return(r) ==
    /\ req[r].pc = "done"
    /\ req' = [req EXCEPT ![r] = NoReq]
    /\ UNCHANGED <<libVars, inflight, calls, rx, tally, mgrVars, initVars,
                   envVars, cursor, online, stops>>

(***************************************************************************)
(* Specifications.  The settings never assign port, ser or the handles, so *)
(* the connection manager is checked on its own (Spec), in every           *)
(* environment; the settings are checked on top of it (SpecOps) for the    *)
(* configured HV500Server, with one serial server coming and going.        *)
(* SpecCodec, SpecReg, SpecTcp and SpecVisa follow: the settings over all  *)
(* their arguments, getPortFromReg on its own, the TCP reads and the VISA  *)
(* initServer.                                                             *)
(***************************************************************************)
Next ==
    \/ InitStart
    \/ \E getOk \in BOOLEAN : InitResolved(getOk)
    \/ \E openOk \in BOOLEAN : InitFound(openOk)
    \/ \E s \in Servers, openOk \in BOOLEAN : ServerConnected(s, openOk)
    \/ \E s \in Servers : ServerDisconnected(s)
    \/ StopServer

Spec == Init /\ [][Next]_vars

\* the serial server of the node
OpServers == {1}

InitOps ==
    /\ Init
    /\ regKey = REGKEY
    /\ serNode = NodeName
    /\ registry = [hasPorts |-> TRUE, keys |-> << [k |-> REGKEY, v |-> "COM3"],
                                                 [k |-> OTHERKEY, v |-> "COM9"] >>]
    /\ cursor = Root
    /\ online \subseteq OpServers

NextOps ==
    \/ InitStart
    \/ \E getOk \in BOOLEAN : InitResolved(getOk)
    \/ \E openOk \in BOOLEAN : InitFound(openOk)
    \/ \E s \in OpServers, openOk \in BOOLEAN : ServerConnected(s, openOk)
    \/ \E s \in OpServers : ServerDisconnected(s)
    \/ StopServer
    \/ \E r \in Reqs, c \in CallArgs, ioOk \in BOOLEAN :
            Call(r, c.op, c.channel, c.voltage, ioOk)
    \/ \E r \in Reqs, ioOk \in BOOLEAN : AfterWrite(r, ioOk)
    \/ \E r \in Reqs : AfterRead(r)
    \/ \E r \in Reqs : Return(r)

SpecOps == InitOps /\ [][NextOps]_vars

(***************************************************************************)
(* The settings' arguments.  A client that awaits each reply before its    *)
(* next call, as HV500Client does, calls with every channel from 0 to 17   *)
(* and with voltages at, inside and outside the limits.                    *)
(***************************************************************************)
CodecChannels == 0..17
CodecVoltages == {-300001, -300000, -1, 0, 12340, 300000, 300001}
CodecArgs ==
    {[op |-> "get_ID", channel |-> 0, voltage |-> 0]}
    \cup {[op |-> "get_voltage", channel |-> c, voltage |-> 0] : c \in CodecChannels}
    \cup {[op |-> "set_voltage", channel |-> c, voltage |-> v] :
              c \in CodecChannels, v \in CodecVoltages}

\* a call made when no other call is under way
CallAlone(r, op, channel, voltage, ioOk) ==
    /\ \A q \in Reqs : req[q].op = ""
    /\ Call(r, op, channel, voltage, ioOk)

NextCodec ==
    \/ InitStart
    \/ \E getOk \in BOOLEAN : InitResolved(getOk)
    \/ \E openOk \in BOOLEAN : InitFound(openOk)
    \/ \E r \in Reqs, c \in CodecArgs, ioOk \in BOOLEAN :
            CallAlone(r, c.op, c.channel, c.voltage, ioOk)
    \/ \E r \in Reqs, ioOk \in BOOLEAN : AfterWrite(r, ioOk)
    \/ \E r \in Reqs : AfterRead(r)
    \/ \E r \in Reqs : Return(r)

SpecCodec == InitOps /\ [][NextCodec]_vars

(***************************************************************************)
(* getPortFromReg called on its own, with and without a key, on every      *)
(* registry.                                                               *)
(***************************************************************************)
FIVEHUNDRED == <<"5","0","0">>
HV500 == <<"H","V","5","0","0">>
ABSENT == <<"A","B","S","E","N","T">>
\* the regKey arguments of the call (<<>>: none given)
RegKeyArgs == {<<>>, REGKEY, FIVEHUNDRED, HV500, ABSENT}
\* the name attribute of the calling server (<<>>: not set)
NameAttrs == {SERVERNAME, <<>>}

InitReg ==
    /\ ManagerInit
    /\ regKey = REGKEY
    /\ serNode = NodeName
    /\ online = {}
    /\ regCall \in {[NoRegCall EXCEPT !.pc = "called", !.key = k, !.name = n] :
                        k \in RegKeyArgs, n \in NameAttrs}
    /\ tcp = NoTcp
    /\ visa = NoVisa

\* yield self.getPortFromReg(regKey) runs to its end
CallGetPortFromReg(getOk) ==
    /\ regCall.pc = "called"
    /\ LET r == getPortFromReg(registry, cursor, regCall.key, regCall.name, getOk)
       IN  /\ regCall' = [regCall EXCEPT !.pc = "done", !.getOk = getOk, !.res = r]
           /\ cursor' = r.cursor
    /\ UNCHANGED <<tcp, visa, mgrVars, initVars, envVars, online, stops, opVars>>

NextReg == \E getOk \in BOOLEAN : CallGetPortFromReg(getOk)

SpecReg == InitReg /\ [][NextReg]_vars

(***************************************************************************)
(* TCPServer.readline and TCPServer.readall on a connected socket.  The    *)
(* peer's bytes arrive in pieces of any size; a recv takes what has        *)
(* arrived (at most READ_SIZE bytes) and raises socket.timeout when        *)
(* nothing has.  tcp.op is the method called last, tcp.buf its             *)
(* str_to_return, tcp.chunks what its recv calls returned (decoded),       *)
(* tcp.ret how it ended (str, None or timeout), tcp.out all that readline  *)
(* has returned; tcp.onlyLines holds until a readline times out or         *)
(* readall is called.                                                      *)
(***************************************************************************)
READ_SIZE == 4096

\* bytes.decode() on the ASCII bytes of the streams
AsciiChar(b) ==
    CASE b = 10 -> "\n"
      [] b = 13 -> "\r"
      [] b = 46 -> "."
      [] b = 49 -> "1"
      [] b = 50 -> "2"
      [] b = 53 -> "5"
Decode(bytes) == [i \in 1..Len(bytes) |-> AsciiChar(bytes[i])]

\* what the peer sends: b"12.5\n", b"1\n2\n", b"5\r\n2"
Streams == { <<49, 50, 46, 53, 10>>, <<49, 10, 50, 10>>, <<53, 13, 10, 50>> }
\* the termination arguments of readline
Terminations == { <<"\n">>, <<"\r", "\n">> }

\* self.socket.recv(READ_SIZE) with data in the receive buffer
recv(sock) == Prefix(sock, READ_SIZE)
AfterRecv(sock) == SubSeq(sock, Len(recv(sock)) + 1, Len(sock))

\* str_to_return = chunk, in place of +=
Accumulate_overwrite(str_to_return, chunk) == Decode(chunk)

\* str_to_return += chunk.decode()
Accumulate(str_to_return, chunk) == str_to_return \o Decode(chunk)

InitTcp ==
    /\ ManagerInit
    /\ regKey = REGKEY
    /\ serNode = NodeName
    /\ online = {}
    /\ registry = [hasPorts |-> FALSE, keys |-> <<>>]
    /\ cursor = Root
    /\ regCall = NoRegCall
    /\ tcp \in {[NoTcp EXCEPT !.pc = "idle", !.stream = s, !.pending = s] :
                    s \in Streams}
    /\ visa = NoVisa

TcpUnchanged ==
    UNCHANGED <<regCall, visa, mgrVars, initVars, envVars, cursor, online,
                stops, opVars>>

\* the next n bytes of the peer reach the socket's receive buffer
TcpArrive(n) ==
    /\ tcp.pc # "off"
    /\ n \in 1..Len(tcp.pending)
    /\ tcp' = [tcp EXCEPT !.sock = @ \o SubSeq(tcp.pending, 1, n),
                          !.pending = SubSeq(@, n + 1, Len(@))]
    /\ TcpUnchanged

\* readline(termination) is called: str_to_return = ""
TcpReadline(termination) ==
    /\ tcp.pc = "idle"
    /\ tcp' = [tcp EXCEPT !.pc = "readline", !.op = "readline",
                          !.termination = termination, !.buf = <<>>,
                          !.chunks = <<>>, !.nrecv = 0,
                          !.ret = [kind |-> "", val |-> <<>>]]
    /\ TcpUnchanged

\* one round of readline's loop with data in the receive buffer; the loop
\* ends when the termination is in str_to_return
TcpReadlineRecv ==
    /\ tcp.pc = "readline"
    /\ tcp.sock # <<>>
    /\ LET chunk == recv(tcp.sock)
           str_to_return == Accumulate(tcp.buf, chunk)
       IN  IF Contains(tcp.termination, str_to_return)
           THEN tcp' = [tcp EXCEPT !.pc = "idle", !.sock = AfterRecv(tcp.sock),
                                   !.buf = <<>>,
                                   !.chunks = Append(@, Decode(chunk)),
                                   !.nrecv = @ + 1,
                                   !.ret = [kind |-> "str", val |-> str_to_return],
                                   !.out = @ \o str_to_return]
           ELSE tcp' = [tcp EXCEPT !.sock = AfterRecv(tcp.sock),
                                   !.buf = str_to_return,
                                   !.chunks = Append(@, Decode(chunk)),
                                   !.nrecv = @ + 1]
    /\ TcpUnchanged

\* readline's recv finds nothing within the timeout: socket.timeout leaves
\* readline, and str_to_return with it
TcpReadlineTimeout ==
    /\ tcp.pc = "readline"
    /\ tcp.sock = <<>>
    /\ tcp' = [tcp EXCEPT !.pc = "idle", !.buf = <<>>, !.nrecv = @ + 1,
                          !.ret = [kind |-> "timeout", val |-> <<>>],
                          !.onlyLines = FALSE]
    /\ TcpUnchanged

\* readall() is called: str_to_return = ""
TcpReadall ==
    /\ tcp.pc = "idle"
    /\ tcp' = [tcp EXCEPT !.pc = "readall", !.op = "readall", !.buf = <<>>,
                          !.chunks = <<>>, !.nrecv = 0,
                          !.ret = [kind |-> "", val |-> <<>>],
                          !.onlyLines = FALSE]
    /\ TcpUnchanged

\* readall's recv returns data: str_to_return += ...; the try block ends and
\* the method with it, without a return statement: the caller gets None
TcpReadallRecv ==
    /\ tcp.pc = "readall"
    /\ tcp.sock # <<>>
    /\ LET chunk == recv(tcp.sock)
       IN  tcp' = [tcp EXCEPT !.pc = "idle", !.sock = AfterRecv(tcp.sock),
                              !.buf = <<>>,
                              !.chunks = Append(@, Decode(chunk)),
                              !.nrecv = @ + 1,
                              !.ret = [kind |-> "None", val |-> <<>>]]
    /\ TcpUnchanged

\* readall's recv times out: except (socket.timeout, TimeoutError):
\* return str_to_return
TcpReadallTimeout ==
    /\ tcp.pc = "readall"
    /\ tcp.sock = <<>>
    /\ tcp' = [tcp EXCEPT !.pc = "idle", !.nrecv = @ + 1,
                          !.ret = [kind |-> "str", val |-> tcp.buf],
                          !.buf = <<>>]
    /\ TcpUnchanged

NextTcp ==
    \/ \E n \in 1..Len(tcp.pending) : TcpArrive(n)
    \/ \E termination \in Terminations : TcpReadline(termination)
    \/ TcpReadlineRecv
    \/ TcpReadlineTimeout
    \/ TcpReadall
    \/ TcpReadallRecv
    \/ TcpReadallTimeout

SpecTcp == InitTcp /\ [][NextTcp]_vars

(***************************************************************************)
(* VisaServer.initServer(links).  visa.attached is what the bus has,       *)
(* visa.links the candidates; visa.opened lists the addresses              *)
(* rm.open_resource was called with, visa.device is the resource it        *)
(* returned, visa.printed the last message, visa.raised the exception      *)
(* that left initServer.  ResourceManager() and list_resources (rmOk) and  *)
(* open_resource (openOk) work or raise VisaIOError.                       *)
(***************************************************************************)
\* the (name, address) candidates
Candidates ==
    { [name |-> "scope", address |-> "GPIB0::1::INSTR"],
      [name |-> "awg", address |-> "GPIB0::2::INSTR"],
      [name |-> "meter", address |-> "USB0::3::INSTR"] }
\* what can be attached to the bus
Resources == {"GPIB0::1::INSTR", "GPIB0::2::INSTR", "ASRL1::INSTR"}
\* the lists of different candidates, in every order
LinkLists ==
    {l \in UNION {[1..n -> Candidates] : n \in 0..Cardinality(Candidates)} :
        \A i, j \in DOMAIN l : i # j => l[i] # l[j]}

RECURSIVE FindAddress_noBreak(_, _)
\* the loop over links without its break: the last match stays
FindAddress_noBreak(links, instruments) ==
    IF links = <<>> THEN ""
    ELSE IF links[Len(links)].address \in instruments
    THEN links[Len(links)].address
    ELSE FindAddress_noBreak(SubSeq(links, 1, Len(links) - 1), instruments)

RECURSIVE FindAddress(_, _)
\* self.address = ""; for _name, address in links: if address in
\* self.instruments: self.address = address; break
FindAddress(links, instruments) ==
    IF links = <<>> THEN ""
    ELSE IF Head(links).address \in instruments THEN Head(links).address
    ELSE FindAddress(Tail(links), instruments)

InitVisa ==
    /\ ManagerInit
    /\ regKey = REGKEY
    /\ serNode = NodeName
    /\ online = {}
    /\ registry = [hasPorts |-> FALSE, keys |-> <<>>]
    /\ cursor = Root
    /\ regCall = NoRegCall
    /\ tcp = NoTcp
    /\ visa \in {[NoVisa EXCEPT !.pc = "start", !.links = l, !.attached = a] :
                     l \in LinkLists, a \in SUBSET Resources}

\* VisaServer.initServer(links), from its first statement to its last
VisaInitServer(rmOk, openOk) ==
    /\ visa.pc = "start"
    /\ LET v == [visa EXCEPT !.pc = "done", !.rmOk = rmOk, !.openOk = openOk]
           found == FindAddress(visa.links, visa.attached)
       IN  IF ~rmOk
           THEN visa' = [v EXCEPT !.printed = "Pyvisa is not able to find the connections"]
           ELSE IF Cardinality(visa.attached) = 0
           THEN visa' = [v EXCEPT !.instruments = visa.attached,
                                  !.printed = "Device not connected!"]
           ELSE IF found = ""
           THEN visa' = [v EXCEPT !.instruments = visa.attached,
                                  !.address = found,
                                  !.printed = "Device not found!"]
           ELSE IF ~openOk
           THEN visa' = [v EXCEPT !.instruments = visa.attached,
                                  !.address = found,
                                  !.opened = Append(@, found),
                                  !.printed = "Pyvisa is not able to find the connections"]
           ELSE visa' = [v EXCEPT !.instruments = visa.attached,
                                  !.address = found,
                                  !.opened = Append(@, found),
                                  !.device = found,
                                  !.printed = "Device connected!"]
    /\ UNCHANGED <<regCall, tcp, mgrVars, initVars, envVars, cursor, online,
                   stops, opVars>>

NextVisa == \E rmOk \in BOOLEAN, openOk \in BOOLEAN : VisaInitServer(rmOk, openOk)

SpecVisa == InitVisa /\ [][NextVisa]_vars

(***************************************************************************)
(* Properties.                                                             *)
(***************************************************************************)
\* the step delivers the "Server Disconnect" message of server s
DisconnectStep(s) == s \in online /\ online' = online \ {s} /\ notes' = notes + 1
\* the step delivers the "Server Connect" message of server s
ConnectStep(s) == s \notin online /\ online' = online \cup {s} /\ notes' = notes + 1

\* C1: a "Server Disconnect" message received while a handle is held sets
\* ser to None if and only if its ID is the held handle's ID; with any other
\* ID the held handle and the state are unchanged.
C1_DisconnectIffSameID ==
    [][\A s \in Servers :
        (DisconnectStep(s) /\ ser # None) =>
            /\ (ser' = None) <=> (handles[ser].ID = ServerID(s))
            /\ handles[ser].ID # ServerID(s) =>
                  /\ ser' = ser
                  /\ handles'[ser] = handles[ser]
                  /\ port' = port]_vars

\* a held handle was dropped because its own server went away
C1_Witness ==
    /\ ser = None
    /\ \E h \in 1..Len(handles) :
          handles[h].state = "dropped" /\ handles[h].srv \notin online

\* C2: at most one handle is opened and neither closed nor dropped.
C2_AtMostOneLiveHandle == Cardinality(Live) <= 1

\* C3: when getPortFromReg fails with PortRegError 0 or 1 during
\* initServer, initServer completes without an exception and ser is None.
C3_RegistryFailureNonFatal ==
    (/\ initpc \in {"done", "failed"}
     /\ ~Falsy(regKey) /\ ~Falsy(serNode)
     /\ (~registry.hasPorts \/ MatchingKeys(registry, regKey) = {}))
    => (initpc = "done" /\ initErr = NoErr /\ ser = None)

\* the servers whose names contain "serial" and the node name "Pc1",
\* whatever the case of the letters
MatchingServers == {1, 2}

\* C4: when findSerial completes in initServer: with no matching server
\* advertised nothing is opened and ser is None (code 0); with an open that
\* fails ser is None (code 1); otherwise ser is a live handle on the first
\* matching server and the resolved port; initServer never raises here.
C4_DiscoveryAndOpenOutcomes ==
    [][(initpc = "finding" /\ initpc' # "finding") =>
         /\ initpc' = "done" /\ initErr' = NoErr
         /\ (online \cap MatchingServers = {}) <=> (caught' = 0)
         /\ caught' = 0 => ser' = None /\ nOpen' = nOpen
         /\ caught' = 1 => ser' = None /\ nOpen' = nOpen + 1
         /\ caught' = -1 =>
               /\ ser' \in 1..Len(handles') /\ ser' \notin 1..Len(handles)
               /\ handles'[ser'].state = "open"
               /\ handles'[ser'].srv = Min(online \cap MatchingServers)
               /\ handles'[ser'].port = port]_vars

\* initServer completed after an open that failed
C4_Witness == initpc = "done" /\ caught = 1 /\ ser = None /\ notes = 0

\* C5: with regKey or serNode not configured initServer fails with
\* SerialDeviceError before any registry request, discovery or open, and
\* no handle is held.
C5_MissingAttributesFailFirst ==
    ((Falsy(regKey) \/ Falsy(serNode)) /\ initpc # "start") =>
        /\ initpc = "failed"
        /\ initErr.err = "SerialDeviceError"
        /\ ~regAccessed /\ ~discovered /\ nOpen = 0
        /\ ser = None /\ handles = <<>> /\ port = NoPort

\* initServer has failed for a server with serNode but no regKey
C5_Witness == initpc = "failed" /\ Falsy(regKey) /\ ~Falsy(serNode)

\* C6 as stated: while ser is None with port and node known, a "Server
\* Connect" message of a matching server leaves the manager connected on the
\* stored port without a registry access; any other leaves the state unchanged.
C6_ReconnectOnMatch ==
    [][\A s \in Servers :
        (ConnectStep(s) /\ ser = None) =>
            IF port # NoPort /\ ~Falsy(serNode) /\ s \in MatchingServers
            THEN /\ ser' \in 1..Len(handles')
                 /\ handles'[ser'].state = "open"
                 /\ handles'[ser'].srv = s
                 /\ handles'[ser'].port = port
                 /\ port' = port /\ cursor' = cursor
                 /\ regAccessed' = regAccessed
            ELSE UNCHANGED <<ser, handles, port, nOpen>>]_vars

\* C6 as amended: the matching message makes one open attempt on the stored
\* port; the manager is connected if it succeeds and stays disconnected, with
\* nothing else changed, if it fails.
C6_ReconnectAttemptOnMatch ==
    [][\A s \in Servers :
        (ConnectStep(s) /\ ser = None) =>
            IF port # NoPort /\ ~Falsy(serNode) /\ s \in MatchingServers
            THEN /\ nOpen' = nOpen + 1
                 /\ port' = port /\ cursor' = cursor
                 /\ regAccessed' = regAccessed
                 /\ \/ /\ ser' = Len(handles) + 1
                       /\ Len(handles') = Len(handles) + 1
                       /\ handles'[ser'].state = "open"
                       /\ handles'[ser'].srv = s
                       /\ handles'[ser'].port = port
                    \/ /\ ser' = None
                       /\ handles' = handles
            ELSE UNCHANGED <<ser, handles, port, nOpen>>]_vars

\* the manager reconnected after its server went away and came back
C6_Witness ==
    /\ initpc = "done" /\ ser # None /\ handles[ser].state = "open"
    /\ handles[ser].baudrate = None
    /\ \E h \in 1..Len(handles) : handles[h].state = "dropped"

\* C7: a get_voltage or set_voltage (with a voltage in bounds) that finds no
\* handle fails with SerialConnectionError 2 and in no other way.
C7_NotConnectedWhenNoHandle ==
    \A r \in Reqs :
        (/\ req[r].pc = "done"
         /\ req[r].op \in {"get_voltage", "set_voltage"}
         /\ req[r].voltage <= VLIM * 1000
         /\ req[r].voltage >= -VLIM * 1000)
        => /\ ~req[r].held => req[r].err = "SerialConnectionError2"
           /\ req[r].err # "AttributeError"

\* C8: a failed transport write or read_line sets ser to None and reaches
\* the caller as SerialConnectionError 2.
C8_IOFailureInvalidatesHandle ==
    [][\A r \in Reqs :
        (~req[r].iofail /\ req'[r].iofail) =>
            (ser' = None /\ req'[r].err = "SerialConnectionError2")]_vars

\* C9: close() is invoked at most once on a handle, however often
\* stopServer is called.
C9_CloseAtMostOnce ==
    \A h \in 1..Len(handles) : handles[h].closes <= 1

\* C10: getPortFromReg leaves the registry cursor where it found it,
\* whether it returns or raises.
C10_CursorRestored ==
    [][(initpc = "resolving" /\ initpc' # "resolving") => cursor' = cursor]_vars

\* the substring a finished call of getPortFromReg looked for: its regKey
\* argument, or "hv50" for a server named hv500_server called without one
RequestedSubstring ==
    IF regCall.key # <<>> THEN regCall.key ELSE <<"h","v","5","0">>
\* the call named a substring: it had a key, or the server had its name
SubstringRequested == regCall.key # <<>> \/ regCall.name = SERVERNAME
\* the positions of the keys of Ports that contain the substring
KeysContaining ==
    {i \in 1..Len(registry.keys) :
        Contains(RequestedSubstring, registry.keys[i].k)}

\* C11: a call of getPortFromReg fails with PortRegError code 0 exactly when
\* the registry has no Ports directory, and with PortRegError code 1 exactly
\* when Ports exists and none of its keys (there may be none at all)
\* contains the substring asked for.
C11_PortRegErrors ==
    (regCall.pc = "done" /\ SubstringRequested) =>
        /\ (regCall.res.err = "PortRegError" /\ regCall.res.code = 0)
               <=> ~registry.hasPorts
        /\ (regCall.res.err = "PortRegError" /\ regCall.res.code = 1)
               <=> (registry.hasPorts /\ KeysContaining = {})

\* a call for an absent key on a registry whose Ports has keys ended with
\* PortRegError code 1
C11_Witness ==
    /\ regCall.pc = "done"
    /\ regCall.key = ABSENT
    /\ registry.hasPorts /\ Len(registry.keys) > 0
    /\ regCall.res.err = "PortRegError" /\ regCall.res.code = 1

\* C12: when Ports exists, a key contains the substring and reg.get answers,
\* getPortFromReg returns the value of the first such key in the order of
\* the listing (without a regKey argument the substring is name[:4].lower());
\* whatever it returns is the value of a key that contains the substring.
C12_FirstMatchingKey ==
    (regCall.pc = "done" /\ SubstringRequested) =>
        /\ (registry.hasPorts /\ KeysContaining # {} /\ regCall.getOk) =>
              /\ regCall.res.err = ""
              /\ \E i \in KeysContaining :
                    /\ \A j \in KeysContaining : i <= j
                    /\ regCall.res.value = registry.keys[i].v
        /\ regCall.res.err = "" =>
              /\ regCall.res.value # NoPort
              /\ \E i \in KeysContaining :
                    regCall.res.value = registry.keys[i].v

\* a call for "500" returned COM5, the value of the second of three keys:
\* the first does not contain "500", the third does
C12_Witness ==
    /\ regCall.pc = "done"
    /\ regCall.key = FIVEHUNDRED
    /\ Len(registry.keys) = 3
    /\ regCall.res.err = ""
    /\ regCall.res.value = "COM5"

\* a call without a key by hv500_server returned the value of hv500_b
C12_DefaultKeyReached ==
    /\ regCall.pc = "done"
    /\ regCall.key = <<>>
    /\ regCall.res.err = ""
    /\ regCall.res.value = "COM5"

\* the set_voltage calls that have started
SetCalls == {r \in Reqs : req[r].op = "set_voltage" /\ req[r].pc # "idle"}
\* the get_voltage calls that have started
GetCalls == {r \in Reqs : req[r].op = "get_voltage" /\ req[r].pc # "idle"}

\* C13: set_voltage with a voltage above 300 V or below -300 V ends with
\* ValueError and never calls the transport's write; with a voltage inside
\* the limits, 300 V and -300 V included, and a connection held it does not
\* end with ValueError and calls the transport's write exactly once.
C13_VoltageLimits ==
    \A r \in SetCalls :
        /\ (req[r].voltage > 300000 \/ req[r].voltage < -300000) =>
              /\ req[r].pc = "done"
              /\ req[r].err = "ValueError"
              /\ req[r].writes = 0
              /\ req[r].wrote = <<>>
        /\ (req[r].voltage <= 300000 /\ req[r].voltage >= -300000) =>
              /\ req[r].err # "ValueError"
              /\ req[r].held => req[r].writes = 1

\* set_voltage(ch, -300) on a connection wrote its line and returned
C13_Witness ==
    \E r \in SetCalls :
        /\ req[r].voltage = -300000
        /\ req[r].pc = "done"
        /\ req[r].err = ""
        /\ req[r].writes = 1
        /\ req[r].wrote # <<>>

\* set_voltage(ch, 300.001) ended with ValueError
C13_RefusalReached ==
    \E r \in SetCalls : req[r].voltage = 300001 /\ req[r].err = "ValueError"

\* C14: get_voltage and set_voltage with a channel outside 1..16 end with a
\* ProtocolError (ChannelOutOfRange) and call neither the transport's
\* write nor its read.
C14_ChannelValidated ==
    \A r \in SetCalls \cup GetCalls :
        req[r].channel \notin 1..16 =>
            /\ req[r].pc = "done"
            /\ req[r].err = "ProtocolError"
            /\ req[r].writes = 0
            /\ req[r].reads = 0

\* "01" .. "16"
ChannelCodes ==
    [c \in 1..16 |->
        IF c < 10 THEN <<"0", DigitChars[c + 1]>>
        ELSE <<"1", DigitChars[c - 9]>>]
\* voltage_to_kw's output for the millivolt values called with
Encodings ==
    [v \in {-300000, -1, 0, 12340, 300000} |->
        CASE v = -300000 -> <<"0",".","2","0","0","0","0","0">>
          [] v = -1      -> <<"0",".","4","9","9","9","9","9">>
          [] v = 0       -> <<"0",".","5","0","0","0","0","0">>
          [] v = 12340   -> <<"0",".","5","1","2","3","4","0">>
          [] v = 300000  -> <<"0",".","8","0","0","0","0","0">>]

\* C19: for a voltage in [-300, 300] and a channel in 1..16, the line
\* set_voltage writes is "HV264 CH<cc> <encoded>\r": HV264 is the last five
\* characters of regKey, cc the two-digit channel, encoded (v + 500) / 1000
\* with six decimals (0 -> 0.500000, -300 -> 0.200000, 300 -> 0.800000).
C19_SetVoltageLine ==
    \A r \in SetCalls :
        (req[r].wrote # <<>> /\ req[r].channel \in 1..16) =>
            /\ req[r].voltage \in DOMAIN Encodings
            /\ req[r].wrote =
                  <<"H","V","2","6","4">> \o <<" ","C","H">>
                  \o ChannelCodes[req[r].channel] \o <<" ">>
                  \o Encodings[req[r].voltage] \o <<"\r">>
            /\ Len(req[r].volt_str) = 8 /\ req[r].volt_str[2] = "."

\* set_voltage(16, 300) wrote "HV264 CH16 0.800000\r"
C19_Witness ==
    \E r \in SetCalls :
        /\ req[r].channel = 16
        /\ req[r].voltage = 300000
        /\ req[r].wrote = <<"H","V","2","6","4"," ","C","H","1","6"," ",
                            "0",".","8","0","0","0","0","0","\r">>

\* C20: for a channel in 1..16 channel_to_str gives the two-character,
\* zero-padded decimal code (1 -> 01, 9 -> 09, 10 -> 10, 16 -> 16), and
\* different channels get different codes.
C20_ChannelCode ==
    /\ \A r \in SetCalls \cup GetCalls :
          (req[r].ch_str # <<>> /\ req[r].channel \in 1..16) =>
              /\ Len(req[r].ch_str) = 2
              /\ req[r].ch_str = ChannelCodes[req[r].channel]
    /\ \A c1, c2 \in 1..16 :
          c1 # c2 => channel_to_str(c1) # channel_to_str(c2)

\* get_voltage(9) computed the code "09"
C20_Witness ==
    \E r \in GetCalls :
        /\ req[r].channel = 9
        /\ req[r].ch_str = <<"0","9">>
        /\ req[r].writes = 1

\* C15: no step makes more than one call of ser.open; ser.open is called
\* only when initServer resumes from findSerial and when a "Server Connect"
\* message is handled; the registry and the manager's server list are asked
\* only by initServer; and once initServer is over with no handle held,
\* only the handling of a "Server Connect" message sets ser.
C15_NoRetry ==
    [][/\ nOpen' \in {nOpen, nOpen + 1}
       /\ nOpen' # nOpen =>
             \/ initpc = "finding" /\ initpc' = "done"
             \/ \E s \in Servers : ConnectStep(s)
       /\ (regAccessed' # regAccessed \/ discovered' # discovered) =>
             initpc \in {"start", "resolving"}
       /\ (initpc = "done" /\ ser = None /\ ser' # None) =>
             \E s \in Servers : ConnectStep(s)]_vars

\* initServer's open failed (SerialConnectionError 1 caught) and a later
\* "Server Connect" message made the second and successful call of ser.open
C15_Witness ==
    /\ initpc = "done"
    /\ caught = 1
    /\ nOpen = 2
    /\ ser # None
    /\ notes >= 2

RECURSIVE Flatten(_)
\* the concatenation of the strings of a sequence
Flatten(ss) == IF ss = <<>> THEN <<>> ELSE Head(ss) \o Flatten(Tail(ss))
\* a sequence without its last element
Front(ss) == SubSeq(ss, 1, Len(ss) - 1)
\* the bytes b"12.5\n" as text
Text125 == <<"1", "2", ".", "5", "\n">>

\* C16: a readline call that returns has made as many recv calls as it
\* received chunks, returns their concatenation in order, and stopped at the
\* first chunk with which the accumulated text contains the termination;
\* and as long as every call has been a readline that returned (or is under
\* way), the text returned so far, followed by the text accumulated by the
\* call under way and the bytes not yet read, is the peer's stream: nothing
\* dropped, nothing twice.
C16_ReadlineChunks ==
    /\ (tcp.op = "readline" /\ tcp.ret.kind = "str") =>
          /\ tcp.chunks # <<>>
          /\ tcp.nrecv = Len(tcp.chunks)
          /\ tcp.ret.val = Flatten(tcp.chunks)
          /\ Contains(tcp.termination, tcp.ret.val)
          /\ ~Contains(tcp.termination, Flatten(Front(tcp.chunks)))
    /\ (tcp.pc # "off" /\ tcp.onlyLines) =>
          tcp.out \o tcp.buf \o Decode(tcp.sock) \o Decode(tcp.pending)
              = Decode(tcp.stream)

\* b"12." then b"5\n": readline("\n") returned "12.5\n" after two chunks,
\* and it is all that has been returned
C16_Witness ==
    /\ tcp.op = "readline" /\ tcp.ret.kind = "str"
    /\ tcp.chunks = << <<"1", "2", ".">>, <<"5", "\n">> >>
    /\ tcp.ret.val = Text125
    /\ tcp.out = Text125
    /\ tcp.onlyLines

\* C17: a readall call that has ended made exactly one recv and returned a
\* string: the received data when there was some, the empty string when
\* the recv timed out.
C17_ReadallReturnsData ==
    (tcp.op = "readall" /\ tcp.pc = "idle") =>
        /\ tcp.nrecv = 1
        /\ tcp.ret.kind = "str"
        /\ tcp.ret.val = Flatten(tcp.chunks)

\* the positions of the candidates whose address is attached
AttachedCandidates ==
    {i \in 1..Len(visa.links) : visa.links[i].address \in visa.attached}

\* C18: initServer(links) ends without raising; when the bus can be listed
\* and a candidate's address is attached, rm.open_resource is called once,
\* with the address of the first such candidate in the order of links, and
\* the device is that resource if the call succeeds; when no candidate's
\* address is attached, or nothing is, or the bus cannot be listed,
\* open_resource is not called and there is no device.
C18_FirstCandidateOpened ==
    visa.pc = "done" =>
        /\ visa.raised = ""
        /\ (visa.rmOk /\ AttachedCandidates # {}) =>
              \E i \in AttachedCandidates :
                  /\ \A j \in AttachedCandidates : i <= j
                  /\ visa.opened = <<visa.links[i].address>>
                  /\ visa.device =
                        IF visa.openOk THEN visa.links[i].address ELSE "unset"
        /\ (~visa.rmOk \/ AttachedCandidates = {}) =>
              /\ visa.opened = <<>>
              /\ visa.device = "unset"

\* with candidates meter, awg, scope and all resources attached, the awg
\* (second in the list, first attached) was opened
C18_Witness ==
    /\ visa.pc = "done"
    /\ Len(visa.links) = 3
    /\ visa.links[1].name = "meter" /\ visa.links[2].name = "awg"
    /\ visa.attached = Resources
    /\ visa.opened = <<"GPIB0::2::INSTR">>
    /\ visa.device = "GPIB0::2::INSTR"

\* candidates given, none attached: "Device not found!" and no device
C18_NoMatchReached ==
    /\ visa.pc = "done"
    /\ visa.links # <<>>
    /\ visa.attached = {"ASRL1::INSTR"}
    /\ visa.printed = "Device not found!"
    /\ visa.device = "unset"

\* the requests of get_ID and get_voltage
GetRequests == {r \in Reqs : req[r].op \in {"get_ID", "get_voltage"}}
\* the requests of set_voltage
SetRequests == {r \in Reqs : req[r].op = "set_voltage"}

\* C21: a setting calls ser.write at most once and ser.read_line at most
\* once, and read_line only after its write has been answered; get_ID and
\* get_voltage that return have made one write and then one read_line;
\* set_voltage never calls read_line and has made one write when it
\* returns; so when every setting called so far has returned, the calls of
\* read_line number the gets and the calls of write the gets and sets.
C21_TransportSequence ==
    /\ \A r \in GetRequests \cup SetRequests :
          /\ req[r].writes <= 1 /\ req[r].readCalls <= 1
          /\ req[r].readCalls = 1 => req[r].writes = 1
          /\ req[r].pc = "write" => req[r].readCalls = 0
          /\ (req[r].pc = "done" /\ req[r].err = "") => req[r].writes = 1
    /\ \A r \in GetRequests :
          (req[r].pc = "done" /\ req[r].err = "") => req[r].readCalls = 1
    /\ \A r \in SetRequests : req[r].readCalls = 0 /\ req[r].reads = 0
    /\ (tally.failed = 0 /\ inflight = <<>>) =>
          /\ tally.readCalls = tally.gets
          /\ tally.writes = tally.gets + tally.sets

\* a get and a set have returned: two writes, one read_line
C21_Witness ==
    /\ tally.failed = 0
    /\ inflight = <<>>
    /\ tally.gets = 1 /\ tally.sets = 1
    /\ tally.writes = 2 /\ tally.readCalls = 1

\* C22: two gets are never both between their write and the end of their
\* read (their write/read pairs do not interleave), and the line a get
\* reads is the reply to its own query.
C22_PairsDoNotInterleave ==
    /\ \A q, r \in GetRequests :
          (q # r /\ req[q].pc \in {"write", "read"}) =>
              req[r].pc \notin {"write", "read"}
    /\ \A r \in GetRequests : req[r].reads = 1 => req[r].val = r

\* a get has read the reply to the other get's query
C22_ForeignReplyRead ==
    \E r \in GetRequests : req[r].reads = 1 /\ req[r].val # r

\* C23: every connection the manager has opened, by initServer or by the
\* handling of a "Server Connect" message, was opened on the resolved port
\* with the timeout and the baud rate of the class: timeout and baudrate
\* were both given to SerialConnection.
C23_SameTransportParameters ==
    \A h \in 1..Len(handles) :
        /\ handles[h].port = port
        /\ handles[h].timeout = TIMEOUT
        /\ handles[h].baudrate = BAUDRATE

\* a connection opened by initServer and one opened on "Server Connect"
\* differ in their baud rate
C23_ReconnectWithoutBaudrate ==
    \E g, h \in 1..Len(handles) :
        /\ handles[g].baudrate = BAUDRATE
        /\ handles[h].baudrate = None
        /\ handles[g].port = handles[h].port
        /\ handles[g].timeout = handles[h].timeout
====
